---- MODULE Spec2Model ----
(***************************************************************************)
(* The UI glyph system of amethyst_ui (renderer/glyphs.rs): run splitting, *)
(* password masking, the per-entity glyph cache, the queue / resolve cycle *)
(* of the glyph brush and the geometry written back to each text element.  *)
(*                                                                         *)
(* Two specifications share the module:                                    *)
(*   SpecFn  applies the free functions of glyphs.rs to inputs drawn from  *)
(*           bounded sets;                                                 *)
(*   Spec    runs update cycles of build_ui_glyphs_system over a small     *)
(*           world of text elements that is edited between cycles.         *)
(*                                                                         *)
(* Numbers: f32 coordinates are integers.  usize is modelled with the      *)
(* modulus UsizeModulus = 2^24 instead of 2^64 (TLC integers are 32 bit);  *)
(* every length and index of the model is far below it, so a cast of a     *)
(* negative isize and a wrapped subtraction behave as they do at 64 bits.  *)
(***************************************************************************)
EXTENDS Integers, Sequences, FiniteSets, TLC

\* ---------------------------------------------------------------- bounds
MaxLen == 3       \* longest content, in code points, SpecFn draws
MaxOff == 2       \* how far below 0 / beyond the length a cursor or anchor is drawn
MaxCount == 33    \* largest grapheme count handed to password_sections
MaxEdits == 1     \* edits of the world between cycles, per behaviour
MaxClicks == 2    \* events the mouse selection system finds in the channel per run

\* --------------------------------------------------------------- helpers
Min(a, b) == IF a <= b THEN a ELSE b
Max(a, b) == IF a >= b THEN a ELSE b

RECURSIVE SumSeq(_)
SumSeq(s) == IF s = <<>> THEN 0 ELSE Head(s) + SumSeq(Tail(s))

RECURSIVE Flatten(_)
Flatten(ss) == IF ss = <<>> THEN <<>> ELSE Head(ss) \o Flatten(Tail(ss))

RECURSIVE SeqsUpTo(_, _)
SeqsUpTo(S, n) ==
    IF n = 0 THEN {<<>>}
    ELSE LET shorter == SeqsUpTo(S, n - 1)
         IN shorter \cup {Append(s, c) : s \in {t \in shorter : Len(t) = n - 1}, c \in S}

\* ------------------------------------------------------- usize arithmetic
UsizeModulus == 2^24

\* `x as usize` for an isize x: two's complement reinterpretation.
ToUsize(i) == i % UsizeModulus

\* usize `a - b`: the wrapped value, and whether the subtraction overflowed
\* (a panic when the build has overflow checks, a wrap when it has none).
CheckedSub(a, b) == [val |-> (a - b) % UsizeModulus, ovf |-> a < b]

\* ------------------------------------------------------------------ text
\* A string is a sequence of code points.  "A", "B": one byte each;
\* "m": U+0301 COMBINING ACUTE ACCENT, two bytes, Grapheme_Extend;
\* "*": U+2022 BULLET, three bytes (the character of the password mask).
Chars == {"A", "B", "m"}
Bullet == "*"

ByteLen(c) == IF c = "m" THEN 2 ELSE IF c = Bullet THEN 3 ELSE 1
IsExtend(c) == c = "m"

\* str::len(): the length in bytes.
StrLen(text) == SumSeq([i \in 1..Len(text) |-> ByteLen(text[i])])

\* Byte offset of the code point after the first k code points.
ByteOffset(text, k) == StrLen(SubSeq(text, 1, k))

\* str::is_char_boundary
IsCharBoundary(text, b) == \E k \in 0..Len(text) : ByteOffset(text, k) = b

\* Code point positions (1-based) at which an extended grapheme cluster starts:
\* there is no boundary before a Grapheme_Extend code point.
GraphemeStarts(text) == {i \in 1..Len(text) : i = 1 \/ ~IsExtend(text[i])}

\* text.graphemes(true).count()
GraphemeCount(text) == Cardinality(GraphemeStarts(text))

\* text.grapheme_indices(true).map(|(i, _)| i): the byte index of each cluster.
RECURSIVE GraphemeIndicesFrom(_, _)
GraphemeIndicesFrom(text, i) ==
    IF i > Len(text) THEN <<>>
    ELSE (IF i \in GraphemeStarts(text) THEN <<ByteOffset(text, i - 1)>> ELSE <<>>)
         \o GraphemeIndicesFrom(text, i + 1)

grapheme_indices(text) == GraphemeIndicesFrom(text, 1)

\* &text[from..to] with byte indices: the code points inside, or a panic when
\* an index is no char boundary, from > to, or to > len.
StrSliceOk(text, from, to) ==
    /\ from <= to
    /\ to <= StrLen(text)
    /\ IsCharBoundary(text, from)
    /\ IsCharBoundary(text, to)

StrSlice(text, from, to) ==
    LET a == CHOOSE k \in 0..Len(text) : ByteOffset(text, k) = from
        b == CHOOSE k \in 0..Len(text) : ByteOffset(text, k) = to
    IN SubSeq(text, a + 1, b)

\* Iterator::nth(n) on an iterator over seq that has already yielded pos items.
IterNth(seq, pos, n) ==
    IF pos + n < Len(seq)
    THEN [some |-> TRUE, item |-> seq[pos + n + 1], pos |-> pos + n + 1]
    ELSE [some |-> FALSE, item |-> 0, pos |-> Len(seq)]

\* ------------------------------------------------------ free functions
\* fn selected_bytes(text_editing, text) -> Option<Range<usize>>
selected_bytes(te, text, overflow_checks) ==
    IF te.highlight_vector = 0 THEN [kind |-> "None", start |-> 0, end |-> 0]
    ELSE
    LET hp == te.cursor_position + te.highlight_vector
        start == ToUsize(Min(te.cursor_position, hp))
        d1 == CheckedSub(ToUsize(Max(te.cursor_position, hp)), start)
        d2 == CheckedSub(d1.val, 1)
        to_end == d2.val
        indexes == grapheme_indices(text)
        n1 == IterNth(indexes, 0, start)
        start_byte == IF n1.some THEN n1.item ELSE StrLen(text)
        n2 == IterNth(indexes, n1.pos, to_end)
        end_byte == IF n2.some THEN n2.item ELSE StrLen(text)
    IN IF overflow_checks /\ (d1.ovf \/ d2.ovf)
       THEN [kind |-> "Panic", start |-> 0, end |-> 0]
       ELSE IF start_byte = end_byte
            THEN [kind |-> "None", start |-> 0, end |-> 0]
            ELSE [kind |-> "Some", start |-> start_byte, end |-> end_byte]

\* fn highlighted_glyphs_range(text_editing, ui_text) -> Range<usize>
highlighted_glyphs_range(te, cached_glyphs) ==
    LET cursor_position == ToUsize(te.cursor_position)
        highlight_position == ToUsize(te.cursor_position + te.highlight_vector)
        glyph_count == Len(cached_glyphs)
    IN [start |-> Min(Min(cursor_position, highlight_position), glyph_count),
        end |-> Min(Max(cursor_position, highlight_position), glyph_count)]

\* fn password_sections(grapheme_count) -> impl Iterator<Item = &'static str>
PASSWORD_STR_GRAPHEME_COUNT == 16
PASSWORD_CHAR_GRAPHEME_BYTE_COUNT == 3
PASSWORD_STR == [i \in 1..PASSWORD_STR_GRAPHEME_COUNT |-> Bullet]

\* A variant that takes the mask character for a two-byte code point.
password_section_ranges_two_bytes(grapheme_count) ==
    LET full_chunks == grapheme_count \div PASSWORD_STR_GRAPHEME_COUNT
        remaining_graphemes == grapheme_count % PASSWORD_STR_GRAPHEME_COUNT
    IN [i \in 1..full_chunks |-> [from |-> 0, to |-> StrLen(PASSWORD_STR)]]
       \o <<[from |-> 0, to |-> remaining_graphemes * 2]>>

\* The byte ranges [from, to) of PASSWORD_STR the iterator yields, in order.
password_section_ranges(grapheme_count) ==
    LET full_chunks == grapheme_count \div PASSWORD_STR_GRAPHEME_COUNT
        remaining_graphemes == grapheme_count % PASSWORD_STR_GRAPHEME_COUNT
    IN [i \in 1..full_chunks |-> [from |-> 0, to |-> StrLen(PASSWORD_STR)]]
       \o <<[from |-> 0, to |-> remaining_graphemes * PASSWORD_CHAR_GRAPHEME_BYTE_COUNT]>>

password_sections_ok(grapheme_count) ==
    LET rs == password_section_ranges(grapheme_count)
    IN \A i \in 1..Len(rs) : StrSliceOk(PASSWORD_STR, rs[i].from, rs[i].to)

password_sections(grapheme_count) ==
    LET rs == password_section_ranges(grapheme_count)
    IN [i \in 1..Len(rs) |-> StrSlice(PASSWORD_STR, rs[i].from, rs[i].to)]

\* The three grapheme counts of build_ui_glyphs_system's (true, Some(text_editing))
\* arm: start, to_end, rest.
password_selection_counts(te, grapheme_count, overflow_checks) ==
    LET cursor_position == te.cursor_position
        highlight_position == te.cursor_position + te.highlight_vector
        start == ToUsize(Min(cursor_position, highlight_position))
        d1 == CheckedSub(ToUsize(Max(cursor_position, highlight_position)), start)
        to_end == d1.val
        d2 == CheckedSub(grapheme_count, to_end)
        d3 == CheckedSub(d2.val, start)
        rest == d3.val
    IN [panic |-> overflow_checks /\ (d1.ovf \/ d2.ovf \/ d3.ovf),
        start |-> start, to_end |-> to_end, rest |-> rest]

\* ----------------------------------------------------------- font metrics
\* ab_glyph's Font / ScaleFont for the one font asset of the model, at pixel
\* scale font_size (a multiple of 4, so that every halving stays an integer).
glyph_id(c) ==
    CASE c = "A" -> 1 [] c = "B" -> 2 [] c = "m" -> 3 [] c = Bullet -> 4 [] c = " " -> 5

h_advance(id, font_size) ==
    CASE id = 1 -> font_size
      [] id = 2 -> font_size + 2
      [] id = 3 -> 0
      [] id = 4 -> font_size
      [] id = 5 -> font_size \div 2

ascent(font_size) == font_size
descent(font_size) == -(font_size \div 2)

\* --------------------------------------------------------------- layout
\* glyph_brush's glyphs_custom_layout for a section: one positioned glyph per
\* code point of the concatenated runs, left to right from screen_position,
\* each carrying the extra data (entity, colour) of its run.
RECURSIVE LayoutRun(_, _, _, _, _)
LayoutRun(text, x, y, font_size, extra) ==
    IF text = <<>> THEN <<>>
    ELSE LET id == glyph_id(Head(text))
         IN <<[id |-> id, x |-> x, y |-> y, extra |-> extra]>>
            \o LayoutRun(Tail(text), x + h_advance(id, font_size), y, font_size, extra)

RunWidth(text, font_size) ==
    SumSeq([i \in 1..Len(text) |-> h_advance(glyph_id(text[i]), font_size)])

RECURSIVE LayoutRuns(_, _, _, _)
LayoutRuns(runs, x, y, font_size) ==
    IF runs = <<>> THEN <<>>
    ELSE LayoutRun(Head(runs).text, x, y, font_size, Head(runs).extra)
         \o LayoutRuns(Tail(runs), x + RunWidth(Head(runs).text, font_size), y, font_size)

glyphs_custom_layout(section) ==
    LayoutRuns(section.text, section.screen_position[1],
               section.screen_position[2] + ascent(section.font_size),
               section.font_size)

\* ------------------------------------------------- per-entity glyph cache
\* The password arm: one cache entry per laid-out glyph.
CachePassword(laid, font_size) ==
    [i \in 1..Len(laid) |->
        [x |-> laid[i].x, y |-> -laid[i].y,
         advance_width |-> h_advance(laid[i].id, font_size)]]

\* A variant whose layout cursor advances with every character.
RECURSIVE CacheLockstepAlwaysAdvances(_, _, _, _, _, _)
CacheLockstepAlwaysAdvances(text, laid, i, j, acc, font_size) ==
    IF i > Len(text) THEN acc
    ELSE
    LET c == text[i]
        xy == IF acc = <<>> THEN <<0, 0>>
              ELSE <<acc[Len(acc)].x + acc[Len(acc)].advance_width, acc[Len(acc)].y>>
        hit == j <= Len(laid) /\ glyph_id(c) = laid[j].id
        cached_glyph ==
            IF hit
            THEN [x |-> laid[j].x, y |-> -laid[j].y,
                  advance_width |-> h_advance(laid[j].id, font_size)]
            ELSE [x |-> xy[1], y |-> xy[2],
                  advance_width |-> h_advance(glyph_id(c), font_size)]
    IN CacheLockstepAlwaysAdvances(text, laid, i + 1, j + 1,
                                   Append(acc, cached_glyph), font_size)

\* A variant whose layout cursor stays on the glyph it has copied.
RECURSIVE CacheLockstepNeverAdvances(_, _, _, _, _, _)
CacheLockstepNeverAdvances(text, laid, i, j, acc, font_size) ==
    IF i > Len(text) THEN acc
    ELSE
    LET c == text[i]
        xy == IF acc = <<>> THEN <<0, 0>>
              ELSE <<acc[Len(acc)].x + acc[Len(acc)].advance_width, acc[Len(acc)].y>>
        hit == j <= Len(laid) /\ glyph_id(c) = laid[j].id
        cached_glyph ==
            IF hit
            THEN [x |-> laid[j].x, y |-> -laid[j].y,
                  advance_width |-> h_advance(laid[j].id, font_size)]
            ELSE [x |-> xy[1], y |-> xy[2],
                  advance_width |-> h_advance(glyph_id(c), font_size)]
    IN CacheLockstepNeverAdvances(text, laid, i + 1, j, Append(acc, cached_glyph), font_size)

\* The non-password arm: the lockstep walk over ui_text.text.chars() (index i)
\* and the laid-out glyphs (index j, last_section_glyph), acc the cache so far.
RECURSIVE CacheLockstep(_, _, _, _, _, _)
CacheLockstep(text, laid, i, j, acc, font_size) ==
    IF i > Len(text) THEN acc
    ELSE
    LET c == text[i]
        xy == IF acc = <<>> THEN <<0, 0>>
              ELSE <<acc[Len(acc)].x + acc[Len(acc)].advance_width, acc[Len(acc)].y>>
        hit == j <= Len(laid) /\ glyph_id(c) = laid[j].id
        cached_glyph ==
            IF hit
            THEN [x |-> laid[j].x, y |-> -laid[j].y,
                  advance_width |-> h_advance(laid[j].id, font_size)]
            ELSE [x |-> xy[1], y |-> xy[2],
                  advance_width |-> h_advance(glyph_id(c), font_size)]
    IN CacheLockstep(text, laid, i + 1, IF hit THEN j + 1 ELSE j,
                     Append(acc, cached_glyph), font_size)

\* ------------------------------------------------------ cursor geometry
\* A variant that forgets the alignment offset.
AlignedOriginUnaligned(transform, align2) ==
    <<transform.pixel_x, transform.pixel_y>>

\* The aligned origin of an element: normalized_offset() is kept doubled
\* (align2, components in {-1, 0, 1}) so that the product stays an integer.
AlignedOrigin(transform, align2) ==
    <<transform.pixel_x + (transform.pixel_width * align2[1]) \div 2,
      transform.pixel_y + (transform.pixel_height * align2[2]) \div 2>>

\* A variant that leaves the cursor on the last glyph instead of behind it.
update_cursor_position_on_last(cached_glyphs, offset) ==
    LET glyph == cached_glyphs[Len(cached_glyphs)]
    IN <<glyph.x, glyph.y + offset>>

\* The `else if let Some(glyph) = ui_text.cached_glyphs.last()` arm.
update_cursor_position_end(cached_glyphs, offset) ==
    LET glyph == cached_glyphs[Len(cached_glyphs)]
    IN <<glyph.x + glyph.advance_width, glyph.y + offset>>

\* fn update_cursor_position: the value written to glyph_data.cursor_position.
update_cursor_position(cached_glyphs, transform, align2, cursor_position, offset) ==
    IF cursor_position < Len(cached_glyphs)
    THEN LET glyph == cached_glyphs[cursor_position + 1]
         IN <<glyph.x, glyph.y + offset>>
    ELSE IF cached_glyphs # <<>>
         THEN update_cursor_position_end(cached_glyphs, offset)
         ELSE AlignedOrigin(transform, align2)

\* ================================================================ state
VARIABLES
    hidden,          \* entity -> the element carries Hidden or HiddenPropagate
    ui_text,         \* entity -> UiText: text, password, font, font_size, cached_glyphs
    text_editing,    \* entity -> TextEditing, or present = FALSE
    ui_glyphs,       \* entity -> UiGlyphs, or present = FALSE
    brush,           \* the GlyphBrush: queued sections, last drawn sections, atlas size
    glyph_texture,   \* UiGlyphsResource.glyph_texture: the handle, the texture it names
                     \* and how many textures the system holds in texture storage
    pc,              \* where build_ui_glyphs_system stands: idle, resolve, panicked
    last,            \* what the last step was, and what the last resolve produced
    edits,           \* edits of the world made so far
    fn_in,           \* SpecFn: the drawn inputs
    fn_call,         \* SpecFn: the function applied, or "none"
    fn_out,          \* SpecFn: its result
    selected,        \* the SelectedEntities resource: entities, last (0 is None)
    focus,           \* entity -> its most recently emitted focus-change event
    click            \* the last ClickStart the mouse selection system handled

sys_vars == <<hidden, ui_text, text_editing, ui_glyphs, brush, glyph_texture, pc, last, edits>>
fn_vars == <<fn_in, fn_call, fn_out>>
sel_vars == <<selected, focus, click>>
vars == <<sys_vars, fn_vars, sel_vars>>

\* ------------------------------------------------------------ the world
Entities == {1, 2}

INITIAL_CACHE_SIZE == 512
DEFAULT_FONT_SIZE == 32
\* A font size whose glyphs do not fit the initial atlas.
LargeFontSize == INITIAL_CACHE_SIZE + 4 * DEFAULT_FONT_SIZE
FontSizes == {DEFAULT_FONT_SIZE, LargeFontSize}

\* UiTransform of an element, and its alignment (normalized_offset doubled).
Transform(e) ==
    [pixel_x |-> 100 * e, pixel_y |-> 40 * e, pixel_width |-> 64, pixel_height |-> 32]
Align2(e) == IF e = 1 THEN <<-1, 1>> ELSE <<0, 0>>

\* Font handles: "loaded" names an asset in AssetStorage<FontAsset>, "pending" one
\* that is not (yet) there.
FontHandles == {"loaded", "pending"}
font_storage == {"loaded"}

NoEditing == [present |-> FALSE, cursor_position |-> 0, highlight_vector |-> 0]
NoGlyphs ==
    [present |-> FALSE, vertices |-> <<>>, selection_vertices |-> <<>>,
     cursor_position |-> <<0, 0>>, height |-> 0, space_width |-> 0]

\* UiGlyphs::default()
DefaultGlyphs == [NoGlyphs EXCEPT !.present = TRUE]

\* ----------------------------------------------------------------- SpecFn
FnOffsets == (0 - MaxOff)..(MaxLen + MaxOff)

\* One axis of a rasterized glyph handed to the vertex emitter: its pixel box
\* [coords_min, coords_max], its logical bounds and its texture coordinates, in
\* texels times uv_per_pixel (f32 arithmetic is taken as exact).
Axis(coords_min, coords_max, bounds_min, bounds_max, uv_min, uv_max) ==
    [coords_min |-> coords_min, coords_max |-> coords_max,
     bounds_min |-> bounds_min, bounds_max |-> bounds_max,
     uv_min |-> uv_min, uv_max |-> uv_max]

NoGlyphBox == [present |-> FALSE, x |-> Axis(0, 0, 0, 0, 0, 0), y |-> Axis(0, 0, 0, 0, 0, 0)]

\* Pixel boxes of 4 by 4 pixels whose bounds cut off nothing, part of an edge
\* or both edges of an axis (glyph_brush emits no vertex for a glyph that lies
\* outside its bounds altogether).
FnAxes ==
    {Axis(2, 6, bmin, bmax, 8, 8 + 4 * k) : bmin \in {0, 2, 3}, bmax \in {5, 6, 8}, k \in {1, 2}}

FnGlyphInputs ==
    {[text |-> <<>>, cursor_position |-> 0, highlight_vector |-> 0, grapheme_count |-> 0,
      overflow_checks |-> TRUE, skipped |-> {},
      glyph |-> [present |-> TRUE, x |-> ax, y |-> ay],
      vertices |-> <<>>, order |-> <<>>] :
        ax \in FnAxes, ay \in FnAxes}

FnTextInputs ==
    {[text |-> t, cursor_position |-> c, highlight_vector |-> a - c,
      grapheme_count |-> GraphemeCount(t), overflow_checks |-> oc, skipped |-> {}, glyph |-> NoGlyphBox,
      vertices |-> <<>>, order |-> <<>>] :
        t \in SeqsUpTo(Chars, MaxLen), c \in FnOffsets, a \in FnOffsets, oc \in BOOLEAN}

FnCountInputs ==
    {[text |-> <<>>, cursor_position |-> 0, highlight_vector |-> 0, grapheme_count |-> n,
      overflow_checks |-> TRUE, skipped |-> {}, glyph |-> NoGlyphBox,
      vertices |-> <<>>, order |-> <<>>] :
        n \in 0..MaxCount}

\* Contents together with the code points the layout returns no glyph for
\* (what lies after a line break in single-line mode, control characters).
FnLayoutInputs ==
    {[text |-> t, cursor_position |-> 0, highlight_vector |-> 0,
      grapheme_count |-> GraphemeCount(t), overflow_checks |-> TRUE, skipped |-> sk,
      glyph |-> NoGlyphBox,
      vertices |-> <<>>, order |-> <<>>] :
        t \in SeqsUpTo(Chars, MaxLen), sk \in SUBSET (1..MaxLen)}

FnFontSize == DEFAULT_FONT_SIZE
FnEditing == [present |-> TRUE, cursor_position |-> fn_in.cursor_position,
              highlight_vector |-> fn_in.highlight_vector]
FnSection ==
    [entity |-> 1,
     screen_position |-> <<AlignedOrigin(Transform(1), Align2(1))[1],
                           -(AlignedOrigin(Transform(1), Align2(1))[2])>>,
     font_size |-> FnFontSize,
     text |-> <<[text |-> fn_in.text, extra |-> [entity |-> 1, color |-> "base"]]>>]
FnCache == CacheLockstep(fn_in.text, glyphs_custom_layout(FnSection), 1, 1, <<>>, FnFontSize)
FnOffset == (ascent(FnFontSize) + descent(FnFontSize)) \div 2

\* The glyphs the layout returns for FnSection when it skips the code points
\* fn_in.skipped: the others keep their places.
FnLaid ==
    LET laid == glyphs_custom_layout(FnSection)
        kept == {k \in 1..Len(laid) : k \notin fn_in.skipped}
        Nth(n) == CHOOSE k \in kept : Cardinality({m \in kept : m < k}) = n - 1
    IN [n \in 1..Cardinality(kept) |-> laid[Nth(n)]]

\* SpecFn: the reconciliation walk over the content and the returned glyphs.
CallCacheLockstep ==
    /\ fn_call = "none"
    /\ fn_call' = "cache_lockstep"
    /\ fn_out' = CacheLockstep(fn_in.text, FnLaid, 1, 1, <<>>, FnFontSize)
    /\ UNCHANGED <<fn_in, sys_vars, sel_vars>>

CallSelectedBytes ==
    /\ fn_call = "none"
    /\ fn_call' = "selected_bytes"
    /\ fn_out' = selected_bytes(FnEditing, fn_in.text, fn_in.overflow_checks)
    /\ UNCHANGED <<fn_in, sys_vars, sel_vars>>

CallHighlightedGlyphsRange ==
    /\ fn_call = "none"
    /\ fn_call' = "highlighted_glyphs_range"
    /\ fn_out' = highlighted_glyphs_range(FnEditing, FnCache)
    /\ UNCHANGED <<fn_in, sys_vars, sel_vars>>

\* SpecFn: what the queue phase takes from selected_bytes and what the draw
\* phase takes from highlighted_glyphs_range for one element.
CallSelectionRanges ==
    /\ fn_call = "none"
    /\ fn_call' = "selection_ranges"
    /\ fn_out' = [bytes |-> selected_bytes(FnEditing, fn_in.text, fn_in.overflow_checks),
                  glyphs |-> highlighted_glyphs_range(FnEditing, FnCache)]
    /\ UNCHANGED <<fn_in, sys_vars, sel_vars>>

CallPasswordSections ==
    /\ fn_call = "none"
    /\ fn_call' = "password_sections"
    /\ fn_out' = [ok |-> password_sections_ok(fn_in.grapheme_count),
                  ranges |-> password_section_ranges(fn_in.grapheme_count),
                  sections |-> IF password_sections_ok(fn_in.grapheme_count)
                               THEN password_sections(fn_in.grapheme_count)
                               ELSE <<>>]
    /\ UNCHANGED <<fn_in, sys_vars, sel_vars>>

CallPasswordSelectionCounts ==
    /\ fn_call = "none"
    /\ fn_call' = "password_selection_counts"
    /\ fn_out' = password_selection_counts(FnEditing, fn_in.grapheme_count, fn_in.overflow_checks)
    /\ UNCHANGED <<fn_in, sys_vars, sel_vars>>

CallUpdateCursorPosition ==
    /\ fn_call = "none"
    /\ fn_call' = "update_cursor_position"
    /\ fn_out' = update_cursor_position(FnCache, Transform(1), Align2(1),
                                        ToUsize(fn_in.cursor_position), FnOffset)
    /\ UNCHANGED <<fn_in, sys_vars, sel_vars>>

\* =========================================================== the system
Visible == {e \in Entities : ~hidden[e]}
FontLoaded(e) == ui_text[e].font \in font_storage

\* The iteration orders a query may visit a set of entities in.
Orders(S) == {o \in [1..Cardinality(S) -> S] : \A i, j \in DOMAIN o : i # j => o[i] # o[j]}

Extra(e, color) == [entity |-> e, color |-> color]
Faulted == [fault |-> TRUE, runs |-> <<>>]

\* `last` when nothing has been drawn yet, and after a step that draws nothing:
\* drawn keeps the vertex list the latest Draw wrote to each element.
NoObservation(step) ==
    [step |-> step, queue_order |-> <<>>, vertices |-> <<>>, current_glyph |-> 0,
     drawn |-> [e \in Entities |-> <<>>]]
Observed(step) == [NoObservation(step) EXCEPT !.drawn = last.drawn]

\* A Vec of this many items cannot be allocated: the collect() aborts.
AllocFails(n) == n >= UsizeModulus \div 2

MaskRuns(n, e, color) ==
    LET ss == password_sections(n)
    IN [i \in 1..Len(ss) |-> [text |-> ss[i], extra |-> Extra(e, color)]]

MaskOk(n) == ~AllocFails(n) /\ password_sections_ok(n)

\* The `match (ui_text.password, text_editing)` that builds the `text` vector
\* of a Section for content t of element e: one Text per coloured run, or a
\* fault (a panic, or an allocation that cannot succeed).
SplitRuns(t, password, te, e, overflow_checks) ==
    LET n == GraphemeCount(t)
        plain == [fault |-> FALSE, runs |-> <<[text |-> t, extra |-> Extra(e, "base")]>>]
    IN
    IF ~password /\ ~te.present THEN plain
    ELSE IF ~password
    THEN LET r == selected_bytes(te, t, overflow_checks)
         IN IF r.kind = "Panic" THEN Faulted
            ELSE IF r.kind = "None" THEN plain
            ELSE IF ~(StrSliceOk(t, 0, r.start) /\ StrSliceOk(t, r.start, r.end)
                      /\ StrSliceOk(t, r.end, StrLen(t)))
            THEN Faulted
            ELSE [fault |-> FALSE,
                  runs |-> <<[text |-> StrSlice(t, 0, r.start), extra |-> Extra(e, "base")],
                             [text |-> StrSlice(t, r.start, r.end), extra |-> Extra(e, "selected")],
                             [text |-> StrSlice(t, r.end, StrLen(t)), extra |-> Extra(e, "base")]>>]
    ELSE IF ~te.present
    THEN IF MaskOk(n) THEN [fault |-> FALSE, runs |-> MaskRuns(n, e, "base")] ELSE Faulted
    ELSE LET k == password_selection_counts(te, n, overflow_checks)
         IN IF k.panic \/ ~MaskOk(k.start) \/ ~MaskOk(k.to_end) \/ ~MaskOk(k.rest)
            THEN Faulted
            ELSE [fault |-> FALSE,
                  runs |-> MaskRuns(k.start, e, "base") \o MaskRuns(k.to_end, e, "selected")
                           \o MaskRuns(k.rest, e, "base")]

\* The `text` vector of the Section of element e.
TextRuns(e, overflow_checks) ==
    SplitRuns(ui_text[e].text, ui_text[e].password, text_editing[e], e, overflow_checks)

\* SpecFn: the run splitting applied to the drawn editing state and content.
CallSplitRuns ==
    /\ fn_call = "none"
    /\ fn_call' = "split_runs"
    /\ fn_out' = SplitRuns(fn_in.text, FALSE, FnEditing, 1, fn_in.overflow_checks)
    /\ UNCHANGED <<fn_in, sys_vars, sel_vars>>

\* The Section queued for element e, given its runs.
Section(e, runs) ==
    [entity |-> e,
     screen_position |-> <<AlignedOrigin(Transform(e), Align2(e))[1],
                           -(AlignedOrigin(Transform(e), Align2(e))[2])>>,
     font_size |-> ui_text[e].font_size,
     text |-> runs]

\* ui_text.cached_glyphs of element e, rebuilt from the layout of its section.
CachedGlyphsOf(e, laid) ==
    IF ui_text[e].password
    THEN CachePassword(laid, ui_text[e].font_size)
    ELSE CacheLockstep(ui_text[e].text, laid, 1, 1, <<>>, ui_text[e].font_size)

\* A variant that keeps the entries of the previous cycle.
ClearedCacheKept(cached_glyphs) == cached_glyphs

\* ui_text.cached_glyphs.clear(): the vector the new entries are appended to.
ClearedCache(cached_glyphs) == <<>>

\* One iteration of the loop over text_query for an element whose font is loaded.
Visit(e, overflow_checks) ==
    LET runs == TextRuns(e, overflow_checks)
        section == Section(e, runs.runs)
    IN [fault |-> runs.fault,
        section |-> section,
        cached_glyphs |-> IF runs.fault THEN <<>>
                          ELSE ClearedCache(ui_text[e].cached_glyphs)
                                   \o CachedGlyphsOf(e, glyphs_custom_layout(section))]

\* glyphs_res.glyph_texture.get_or_insert_with(..): the atlas texture, created
\* with the brush's dimensions by the first run.
GetOrInsertTexture ==
    IF glyph_texture.present THEN glyph_texture
    ELSE [present |-> TRUE, handle |-> glyph_texture.handle + 1,
          textures |-> glyph_texture.textures + 1,
          width |-> brush.width, height |-> brush.height]

\* The start of a run and the queue phase: the loop over text_query.
QueuePhase ==
    /\ pc = "idle"
    /\ \E order \in Orders(Visible), overflow_checks \in BOOLEAN :
        LET visit == [e \in Entities |->
                        IF e \in Visible /\ FontLoaded(e) THEN Visit(e, overflow_checks)
                        ELSE [fault |-> FALSE, section |-> <<>>, cached_glyphs |-> <<>>]]
            queued == SelectSeq(order, FontLoaded)
        IN
        IF \E e \in Entities : visit[e].fault
        THEN /\ glyph_texture' = GetOrInsertTexture
             /\ pc' = "panicked"
             /\ last' = Observed("panic")
             /\ UNCHANGED <<hidden, ui_text, text_editing, ui_glyphs, brush, edits>>
        ELSE /\ glyph_texture' = GetOrInsertTexture
             /\ ui_text' = [e \in Entities |->
                    IF e \notin Visible THEN ui_text[e]
                    ELSE [ui_text[e] EXCEPT !.cached_glyphs = visit[e].cached_glyphs]]
             /\ brush' = [brush EXCEPT !.section_buffer =
                                            [i \in 1..Len(queued) |-> visit[queued[i]].section]]
             /\ pc' = "resolve"
             /\ last' = [Observed("queue") EXCEPT !.queue_order = order]
             /\ UNCHANGED <<hidden, text_editing, ui_glyphs, edits>>
    /\ UNCHANGED <<fn_vars, sel_vars>>

\* ------------------------------------------------------------ the atlas
\* Whether the glyphs of the queued sections fit the atlas (glyph_brush's
\* texture cache packs them in rows): each distinct (glyph, size) takes a
\* square of side size.
SectionGlyphKeys(section) ==
    LET laid == glyphs_custom_layout(section)
    IN {<<laid[k].id, section.font_size>> : k \in 1..Len(laid)}

QueuedGlyphs ==
    UNION {SectionGlyphKeys(brush.section_buffer[i]) : i \in 1..Len(brush.section_buffer)}

RowsHeight(queued, size) ==
    LET n == Cardinality({q \in queued : q[2] = size})
        per_row == brush.width \div size
    IN IF n = 0 THEN 0
       ELSE IF per_row = 0 THEN brush.height + 1
       ELSE ((n + per_row - 1) \div per_row) * size

RECURSIVE RowsHeightSum(_, _)
RowsHeightSum(queued, sizes) ==
    IF sizes = {} THEN 0
    ELSE LET size == CHOOSE x \in sizes : TRUE
         IN RowsHeight(queued, size) + RowsHeightSum(queued, sizes \ {size})

AtlasFits == RowsHeightSum(QueuedGlyphs, FontSizes) <= brush.height

\* ------------------------------------------------------------- resolve
\* A variant whose left clamp rescales from the UV of the unclamped right edge.
ClampAxisStaleMin(a) ==
    LET right == a.coords_max > a.bounds_max
        coords_max == IF right THEN a.bounds_max ELSE a.coords_max
        uv_max == IF right
                  THEN a.uv_min + ((a.uv_max - a.uv_min) * (coords_max - a.coords_min))
                                      \div (a.coords_max - a.coords_min)
                  ELSE a.uv_max
        left == a.coords_min < a.bounds_min
        coords_min == IF left THEN a.bounds_min ELSE a.coords_min
        uv_min == IF left
                  THEN a.uv_max - ((a.uv_max - a.uv_min) * (coords_max - coords_min))
                                      \div (a.coords_max - a.coords_min)
                  ELSE a.uv_min
    IN [coords_min |-> coords_min, coords_max |-> coords_max,
        uv_min |-> uv_min, uv_max |-> uv_max]

\* The clamping of one axis in the vertex emitter closure: first the max edge,
\* then the min edge, each rescaling its texture coordinate by the part of
\* the current pixel span that is kept.
ClampAxis(a) ==
    LET right == a.coords_max > a.bounds_max
        coords_max == IF right THEN a.bounds_max ELSE a.coords_max
        uv_max == IF right
                  THEN a.uv_min + ((a.uv_max - a.uv_min) * (coords_max - a.coords_min))
                                      \div (a.coords_max - a.coords_min)
                  ELSE a.uv_max
        left == a.coords_min < a.bounds_min
        coords_min == IF left THEN a.bounds_min ELSE a.coords_min
        uv_min == IF left
                  THEN uv_max - ((uv_max - a.uv_min) * (coords_max - coords_min))
                                    \div (coords_max - a.coords_min)
                  ELSE a.uv_min
    IN [coords_min |-> coords_min, coords_max |-> coords_max,
        uv_min |-> uv_min, uv_max |-> uv_max]

\* The UiArgs geometry the vertex emitter closure returns for a glyph.
ClampedVertex(glyph) ==
    LET x == ClampAxis(glyph.x)
        y == ClampAxis(glyph.y)
    IN [position |-> <<(x.coords_max + x.coords_min) \div 2,
                       -((y.coords_max + y.coords_min) \div 2)>>,
        dimensions |-> <<x.coords_max - x.coords_min, y.coords_max - y.coords_min>>,
        tex_coords_bounds |-> <<x.uv_min, y.uv_min, x.uv_max, y.uv_max>>]

\* SpecFn: the vertex emitter applied to the drawn glyph.
CallClampedVertex ==
    /\ fn_call = "none"
    /\ fn_in.glyph.present
    /\ fn_call' = "to_vertex"
    /\ fn_out' = ClampedVertex(fn_in.glyph)
    /\ UNCHANGED <<fn_in, sys_vars, sel_vars>>

\* The vertex emitter closure: the (entity, UiArgs) pair of one glyph.
to_vertex(g) ==
    [entity |-> g.extra.entity,
     args |-> [position |-> <<g.x, -g.y>>, glyph |-> g.id, color |-> g.extra.color]]

\* BrushAction::Draw(vertices): the vertices of every queued section, in queue order.
RECURSIVE SectionVertices(_)
SectionVertices(sections) ==
    IF sections = <<>> THEN <<>>
    ELSE LET laid == glyphs_custom_layout(Head(sections))
         IN [k \in 1..Len(laid) |-> to_vertex(laid[k])] \o SectionVertices(Tail(sections))

\* A variant that takes the rest of the list whatever entity it was emitted for.
TakeWhileCountAny(vertices, current_glyph, entity) == Len(vertices) - current_glyph

\* vertices[current_glyph..].iter().take_while(|(e, _)| *e == entity): how many it takes.
RECURSIVE TakeWhileCount(_, _, _)
TakeWhileCount(vertices, current_glyph, entity) ==
    IF current_glyph < Len(vertices) /\ vertices[current_glyph + 1].entity = entity
    THEN 1 + TakeWhileCount(vertices, current_glyph + 1, entity)
    ELSE 0

\* A variant whose closure does not count the vertices it hands out.
AdvanceCursorStuck(current_glyph, n) == current_glyph

\* current_glyph after the map closure has run once per taken vertex.
AdvanceCursor(current_glyph, n) == current_glyph + n

\* The loop over glyph_draw_query: the vertices each entity takes, and the
\* final value of current_glyph.
RECURSIVE DrawPartition(_, _, _, _)
DrawPartition(vertices, order, current_glyph, taken) ==
    IF order = <<>> THEN [taken |-> taken, current_glyph |-> current_glyph]
    ELSE LET e == Head(order)
             n == TakeWhileCount(vertices, current_glyph, e)
             mine == [k \in 1..n |-> vertices[current_glyph + k].args]
         IN DrawPartition(vertices, Tail(order), AdvanceCursor(current_glyph, n),
                          [taken EXCEPT ![e] = mine])

\* SpecFn: the flat vertex list of a Draw for the entities queued in the order
\* queue, count[e] vertices for entity e, each vertex tagged with its entity
\* and carrying its index in the list.
FlatVertices(queue, count) ==
    LET per == [i \in 1..Len(queue) |->
                  [k \in 1..count[queue[i]] |-> [entity |-> queue[i], args |-> 0]]]
        flat == Flatten(per)
    IN [j \in 1..Len(flat) |-> [flat[j] EXCEPT !.args = j]]

FnDrawInputs ==
    {[text |-> <<>>, cursor_position |-> 0, highlight_vector |-> 0, grapheme_count |-> 0,
      overflow_checks |-> TRUE, skipped |-> {}, glyph |-> NoGlyphBox,
      vertices |-> FlatVertices(queue, count), order |-> order] :
        queue \in UNION {Orders(S) : S \in SUBSET Entities},
        count \in [Entities -> 0..MaxLen],
        order \in UNION {Orders(S) : S \in (SUBSET Entities) \ {{}}}}

\* SpecFn: the loop over glyph_draw_query visiting the entities in fn_in.order.
CallDrawPartition ==
    /\ fn_call = "none"
    /\ fn_in.order # <<>>
    /\ fn_call' = "draw_partition"
    /\ fn_out' = DrawPartition(fn_in.vertices, fn_in.order, 0, [e \in Entities |-> <<>>])
    /\ UNCHANGED <<fn_in, sys_vars, sel_vars>>

FontOffset(e) == (ascent(ui_text[e].font_size) + descent(ui_text[e].font_size)) \div 2
FontHeight(e) == ascent(ui_text[e].font_size) - descent(ui_text[e].font_size)
SpaceWidth(e) == h_advance(glyph_id(" "), ui_text[e].font_size)

\* One selection quad.
SelectionQuad(g, offset, height) ==
    [position |-> <<g.x + g.advance_width \div 2, g.y + offset>>,
     dimensions |-> <<g.advance_width, height>>,
     color |-> "selected_background"]

\* selection_ui_args_iter: the quads of ui_text.cached_glyphs[highlight_range].
SelectionQuads(e) ==
    LET range == highlighted_glyphs_range(text_editing[e], ui_text[e].cached_glyphs)
        slice == SubSeq(ui_text[e].cached_glyphs, range.start + 1, range.end)
    IN [k \in 1..Len(slice) |-> SelectionQuad(slice[k], FontOffset(e), FontHeight(e))]

CursorOf(e) ==
    update_cursor_position(ui_text[e].cached_glyphs, Transform(e), Align2(e),
                           ToUsize(text_editing[e].cursor_position), FontOffset(e))

\* The editing geometry both arms write: height, space_width, cursor.
WithEditingGeometry(glyphs, e) ==
    [glyphs EXCEPT !.height = FontHeight(e),
                   !.space_width = SpaceWidth(e),
                   !.cursor_position = CursorOf(e)]

\* A variant of the clearing pass that leaves the lists as they are.
ClearedNothing(glyphs) == glyphs

\* glyph_clear_query: every UiGlyphs, of hidden elements too.
Cleared(glyphs) ==
    IF glyphs.present THEN [glyphs EXCEPT !.vertices = <<>>, !.selection_vertices = <<>>]
    ELSE glyphs

\* What the Draw arm leaves in the UiGlyphs of a visited element e that takes
\* the vertices `mine`.  An element without the component gets one through the
\* command buffer, which is flushed when the system has run.
DrawnGlyphs(e, mine) ==
    IF ui_glyphs[e].present
    THEN LET g == [Cleared(ui_glyphs[e]) EXCEPT !.vertices = mine]
         IN IF text_editing[e].present
            THEN WithEditingGeometry([g EXCEPT !.selection_vertices = SelectionQuads(e)], e)
            ELSE g
    ELSE [DefaultGlyphs EXCEPT !.vertices = mine]

\* A variant that empties the lists on ReDraw as the Draw arm does.
RedrawnGlyphsCleared(e) ==
    IF text_editing[e].present /\ ui_glyphs[e].present
    THEN WithEditingGeometry(Cleared(ui_glyphs[e]), e)
    ELSE Cleared(ui_glyphs[e])

\* What the ReDraw arm leaves in the UiGlyphs of a visited element e.
RedrawnGlyphs(e) ==
    IF text_editing[e].present /\ ui_glyphs[e].present
    THEN WithEditingGeometry(ui_glyphs[e], e)
    ELSE ui_glyphs[e]

Panic ==
    /\ pc' = "panicked"
    /\ last' = Observed("font_expect")
    /\ UNCHANGED <<hidden, ui_text, text_editing, ui_glyphs, brush, glyph_texture, edits>>

WouldRedraw == brush.last_draw.valid /\ brush.last_draw.sections = brush.section_buffer

\* Ok(BrushAction::Draw(vertices)).  glyph_draw_query visits the elements in the
\* order text_query did: both match the same archetypes of the same world.
ResolveDraw ==
    /\ pc = "resolve"
    /\ ~WouldRedraw
    /\ AtlasFits
    /\ LET vertices == SectionVertices(brush.section_buffer)
           part == DrawPartition(vertices, last.queue_order, 0, [e \in Entities |-> <<>>])
       IN IF \E e \in Visible : text_editing[e].present /\ ~FontLoaded(e)
          THEN Panic
          ELSE /\ ui_glyphs' = [e \in Entities |->
                      IF e \in Visible THEN DrawnGlyphs(e, part.taken[e])
                      ELSE Cleared(ui_glyphs[e])]
               /\ brush' = [brush EXCEPT !.section_buffer = <<>>,
                                         !.last_draw = [valid |-> TRUE,
                                                        sections |-> brush.section_buffer]]
               /\ pc' = "idle"
               /\ last' = [step |-> "Draw", queue_order |-> last.queue_order,
                           vertices |-> vertices, current_glyph |-> part.current_glyph,
                           drawn |-> [e \in Entities |-> ui_glyphs'[e].vertices]]
               /\ UNCHANGED <<hidden, ui_text, text_editing, glyph_texture, edits>>
    /\ UNCHANGED <<fn_vars, sel_vars>>

\* Ok(BrushAction::ReDraw)
ResolveReDraw ==
    /\ pc = "resolve"
    /\ WouldRedraw
    /\ IF \E e \in Visible : text_editing[e].present /\ ui_glyphs[e].present /\ ~FontLoaded(e)
       THEN Panic
       ELSE /\ ui_glyphs' = [e \in Entities |->
                   IF e \in Visible THEN RedrawnGlyphs(e) ELSE ui_glyphs[e]]
            /\ brush' = [brush EXCEPT !.section_buffer = <<>>]
            /\ pc' = "idle"
            /\ last' = [Observed("ReDraw") EXCEPT !.queue_order = last.queue_order]
            /\ UNCHANGED <<hidden, ui_text, text_editing, glyph_texture, edits>>
    /\ UNCHANGED <<fn_vars, sel_vars>>

\* A variant that inserts the larger texture under a new handle.
ReplaceTextureInsertsNew(width, height) ==
    [glyph_texture EXCEPT !.handle = glyph_texture.handle + 1,
                          !.textures = glyph_texture.textures + 1,
                          !.width = width, !.height = height]

\* A variant that leaves the texture of the old size in storage.
ReplaceTextureKeepsSize(width, height) == glyph_texture

\* texture_storage.replace(glyph_texture_handle, create_glyph_texture(.., width, height))
ReplaceTexture(width, height) ==
    [glyph_texture EXCEPT !.width = width, !.height = height]

\* A variant in which the suggested size is the current size.
ResolveTextureTooSmallNoGrowth ==
    /\ pc = "resolve"
    /\ ~WouldRedraw
    /\ ~AtlasFits
    /\ glyph_texture' = [glyph_texture EXCEPT !.width = brush.width, !.height = brush.height]
    /\ brush' = [brush EXCEPT !.last_draw = [valid |-> FALSE, sections |-> <<>>]]
    /\ last' = [last EXCEPT !.step = "TextureTooSmall"]
    /\ UNCHANGED <<hidden, ui_text, text_editing, ui_glyphs, pc, edits>>
    /\ UNCHANGED <<fn_vars, sel_vars>>

\* A variant that restarts with an empty queue after the resize.
ResolveTextureTooSmallDropsQueue ==
    /\ pc = "resolve"
    /\ ~WouldRedraw
    /\ ~AtlasFits
    /\ glyph_texture' = [glyph_texture EXCEPT !.width = 2 * brush.width,
                                              !.height = 2 * brush.height]
    /\ brush' = [brush EXCEPT !.width = 2 * brush.width, !.height = 2 * brush.height,
                              !.section_buffer = <<>>,
                              !.last_draw = [valid |-> FALSE, sections |-> <<>>]]
    /\ last' = [last EXCEPT !.step = "TextureTooSmall"]
    /\ UNCHANGED <<hidden, ui_text, text_editing, ui_glyphs, pc, edits>>
    /\ UNCHANGED <<fn_vars, sel_vars>>

\* Err(BrushError::TextureTooSmall { suggested }): glyph_brush suggests twice the size.
ResolveTextureTooSmall ==
    /\ pc = "resolve"
    /\ ~WouldRedraw
    /\ ~AtlasFits
    /\ glyph_texture' = ReplaceTexture(2 * brush.width, 2 * brush.height)
    /\ brush' = [brush EXCEPT !.width = 2 * brush.width, !.height = 2 * brush.height,
                              !.last_draw = [valid |-> FALSE, sections |-> <<>>]]
    /\ last' = [last EXCEPT !.step = "TextureTooSmall"]
    /\ UNCHANGED <<hidden, ui_text, text_editing, ui_glyphs, pc, edits>>
    /\ UNCHANGED <<fn_vars, sel_vars>>

\* -------------------------------------------------------------- edits
\* What other systems and the application do to the world between two runs.
Texts == {<<>>, <<"A", "B">>, <<"A", "m">>}
CursorPositions == 0..2
EditStates ==
    {[present |-> TRUE, cursor_position |-> ca[1], highlight_vector |-> ca[2] - ca[1]] :
        ca \in {p \in CursorPositions \X CursorPositions : p[2] - p[1] \in -1..1}}

Edited ==
    /\ pc = "idle"
    /\ edits < MaxEdits
    /\ edits' = edits + 1
    /\ last' = Observed("edit")
    /\ UNCHANGED <<ui_glyphs, brush, glyph_texture, pc, fn_vars, sel_vars>>

SetText(e, t) ==
    /\ t # ui_text[e].text
    /\ ui_text' = [ui_text EXCEPT ![e].text = t]
    /\ Edited
    /\ UNCHANGED <<hidden, text_editing>>

SetTextEditing(e, te) ==
    /\ te # text_editing[e]
    /\ text_editing' = [text_editing EXCEPT ![e] = te]
    /\ Edited
    /\ UNCHANGED <<hidden, ui_text>>

SetPassword(e) ==
    /\ ui_text' = [ui_text EXCEPT ![e].password = ~ui_text[e].password]
    /\ Edited
    /\ UNCHANGED <<hidden, text_editing>>

SetHidden(e) ==
    /\ hidden' = [hidden EXCEPT ![e] = ~hidden[e]]
    /\ Edited
    /\ UNCHANGED <<ui_text, text_editing>>

SetFont(e, f) ==
    /\ f # ui_text[e].font
    /\ ui_text' = [ui_text EXCEPT ![e].font = f]
    /\ Edited
    /\ UNCHANGED <<hidden, text_editing>>

SetFontSize(e, size) ==
    /\ size # ui_text[e].font_size
    /\ ui_text' = [ui_text EXCEPT ![e].font_size = size]
    /\ Edited
    /\ UNCHANGED <<hidden, text_editing>>

\* ============================================================ selection
\* The entities of the selection world: 1 and 2 share a selection group, 3 is
\* in a group of its own, 4 carries no Selectable.
SelEntities == 1..4
NoEntity == 0

HasSelectable(e) == e \in 1..3

Selectable(e) ==
    CASE e = 1 -> [multi_select_group |-> "a", auto_multi_select |-> FALSE]
      [] e = 2 -> [multi_select_group |-> "a", auto_multi_select |-> TRUE]
      [] OTHER -> [multi_select_group |-> "b", auto_multi_select |-> TRUE]

SelectedEntities_default == [entities |-> {}, last |-> NoEntity]

SelectedEntities_clear(s) == [entities |-> {}, last |-> NoEntity]

SelectedEntities_insert(s, entity) ==
    [entities |-> s.entities \cup {entity}, last |-> entity]

\* next is what self.entities.iter().next() yields after the removal: any
\* remaining entity, or NoEntity when none remains.
SelectedEntities_remove(s, entity, next) ==
    [entities |-> s.entities \ {entity},
     last |-> IF s.last = entity THEN next ELSE s.last]

SelectedEntities_contains(s, entity) == entity \in s.entities

SelectedEntities_last(s) == s.last

UiEvent(event_type, target) == [event_type |-> event_type, target |-> target]

\* emitted_ui_events is kept as a sequence of batches: the events of one
\* batch have one type and are pushed from one iteration over the hash set, in
\* the order the set yields its entities; batches are pushed in sequence.
Batch(event_type, targets) == [event_type |-> event_type, targets |-> targets]

Blurs(set) == IF set = {} THEN <<>> ELSE <<Batch("Blur", set)>>

same_select_group(s, entity) ==
    /\ SelectedEntities_last(s) # NoEntity
    /\ HasSelectable(SelectedEntities_last(s))
    /\ Selectable(SelectedEntities_last(s)).multi_select_group
           = Selectable(entity).multi_select_group

\* A variant that lets a click join the selection whatever its group.
multi_select_any_group(s, entity, ctrl) ==
    ctrl \/ Selectable(entity).auto_multi_select

\* The decision of the multi-select branch.
multi_select(s, entity, ctrl) ==
    same_select_group(s, entity) /\ (ctrl \/ Selectable(entity).auto_multi_select)

\* A variant of the replace branch that announces the Focus first.
ReplaceEventsFocusFirst(s, entity) ==
    <<Batch("Focus", {entity})>> \o Blurs(s.entities)

\* The events the replace branch emits.
ReplaceEvents(s, entity) ==
    Blurs(s.entities) \o <<Batch("Focus", {entity})>>

\* The body of the event loop for one ClickStart: the selection after it and
\* the events it appends to emitted_ui_events.
HandleClickStart(s, entity, ctrl) ==
    IF ~HasSelectable(entity)
    THEN [selected |-> [entities |-> {}, last |-> s.last],
          emitted |-> Blurs(s.entities)]
    ELSE IF multi_select(s, entity, ctrl)
    THEN [selected |-> SelectedEntities_insert(s, entity),
          emitted |-> <<Batch("Focus", {entity})>>]
    ELSE [selected |-> SelectedEntities_insert(SelectedEntities_clear(s), entity),
          emitted |-> ReplaceEvents(s, entity)]

RECURSIVE ApplyFocusEvents(_, _)
ApplyFocusEvents(f, events) ==
    IF events = <<>> THEN f
    ELSE ApplyFocusEvents([e \in SelEntities |->
                              IF e \in Head(events).targets THEN Head(events).event_type
                              ELSE f[e]],
                          Tail(events))

NoClick ==
    [handled |-> FALSE, target |-> NoEntity, ctrl |-> FALSE, shift |-> FALSE,
     before |-> SelectedEntities_default, emitted |-> <<>>]

\* The event loop over the events read from the channel: st carries the
\* selection, the focus state the emitted events leave, and the last
\* ClickStart handled.
RECURSIVE HandleEvents(_, _, _)
HandleEvents(st, events, keys) ==
    IF events = <<>> THEN st
    ELSE LET event == Head(events)
             ctrl == "LControl" \in keys \/ "RControl" \in keys
             out == HandleClickStart(st.selected, event.target, ctrl)
         IN IF event.event_type = "ClickStart"
            THEN HandleEvents([selected |-> out.selected,
                               focus |-> ApplyFocusEvents(st.focus, out.emitted),
                               click |-> [handled |-> TRUE, target |-> event.target,
                                          ctrl |-> ctrl, shift |-> "LShift" \in keys,
                                          before |-> st.selected,
                                          emitted |-> out.emitted]],
                              Tail(events), keys)
            ELSE HandleEvents(st, Tail(events), keys)

\* The keys held during a run.
KeySets == {{}, {"LControl"}, {"RControl"}, {"LShift"}}

\* The events a run can find in the channel: ClickStart on any entity, and a
\* Click that the system passes over.
UiEvents == {UiEvent("ClickStart", e) : e \in SelEntities} \cup {UiEvent("Click", 1)}

\* One run of MouseSelectionSystem over the events written since its last run.
MouseSelectionSystem ==
    \E keys \in KeySets, events \in SeqsUpTo(UiEvents, MaxClicks) :
        /\ events # <<>>
        /\ LET st == HandleEvents([selected |-> selected, focus |-> focus, click |-> click],
                                  events, keys)
           IN /\ selected' = st.selected
              /\ focus' = st.focus
              /\ click' = st.click
        /\ UNCHANGED <<sys_vars, fn_vars>>

\* Other systems using the resource's methods.
Clear ==
    /\ edits < MaxEdits
    /\ edits' = edits + 1
    /\ selected' = SelectedEntities_clear(selected)
    /\ click' = NoClick
    /\ UNCHANGED <<focus, hidden, ui_text, text_editing, ui_glyphs, brush, glyph_texture,
                   pc, last, fn_vars>>

Insert(entity) ==
    /\ edits < MaxEdits
    /\ edits' = edits + 1
    /\ selected' = SelectedEntities_insert(selected, entity)
    /\ click' = NoClick
    /\ UNCHANGED <<focus, hidden, ui_text, text_editing, ui_glyphs, brush, glyph_texture,
                   pc, last, fn_vars>>

Remove(entity) ==
    /\ edits < MaxEdits
    /\ edits' = edits + 1
    /\ \E next \in (selected.entities \ {entity}) \cup {NoEntity} :
          /\ next = NoEntity <=> selected.entities \ {entity} = {}
          /\ selected' = SelectedEntities_remove(selected, entity, next)
    /\ click' = NoClick
    /\ UNCHANGED <<focus, hidden, ui_text, text_editing, ui_glyphs, brush, glyph_texture,
                   pc, last, fn_vars>>

SelInitial ==
    /\ selected = SelectedEntities_default
    /\ focus = [e \in SelEntities |-> "none"]
    /\ click = NoClick

\* ----------------------------------------------------- specifications
FnIdle ==
    /\ fn_in = [text |-> <<>>, cursor_position |-> 0, highlight_vector |-> 0,
                grapheme_count |-> 0, overflow_checks |-> TRUE, skipped |-> {},
                glyph |-> NoGlyphBox,
      vertices |-> <<>>, order |-> <<>>]
    /\ fn_call = "idle"
    /\ fn_out = 0

SysInitial ==
    /\ hidden = [e \in Entities |-> FALSE]
    /\ ui_glyphs = [e \in Entities |-> NoGlyphs]
    /\ brush = [section_buffer |-> <<>>, last_draw |-> [valid |-> FALSE, sections |-> <<>>],
                width |-> INITIAL_CACHE_SIZE, height |-> INITIAL_CACHE_SIZE]
    /\ glyph_texture = [present |-> FALSE, handle |-> 0, textures |-> 0,
                        width |-> 0, height |-> 0]
    /\ pc = "idle"
    /\ last = NoObservation("init")
    /\ edits = 0
    /\ SelInitial

\* The system as built, before its first run, over a world of two text
\* elements: element 1 may be editable, element 2 is a label.
Init ==
    /\ SysInitial
    /\ ui_text \in [Entities -> {[text |-> t, password |-> FALSE, font |-> "loaded",
                                  font_size |-> DEFAULT_FONT_SIZE, cached_glyphs |-> <<>>] :
                                 t \in Texts}]
    /\ text_editing \in {[e \in Entities |-> IF e = 1 THEN te ELSE NoEditing] :
                            te \in EditStates \cup {NoEditing}}
    /\ FnIdle

Next ==
    \/ QueuePhase
    \/ ResolveDraw
    \/ ResolveReDraw
    \/ ResolveTextureTooSmall
    \/ \E e \in Entities, t \in Texts : SetText(e, t)
    \/ \E te \in EditStates \cup {NoEditing} : SetTextEditing(1, te)
    \/ SetPassword(1)
    \/ \E e \in Entities : SetHidden(e)
    \/ \E e \in Entities, f \in FontHandles : SetFont(e, f)
    \/ \E size \in FontSizes : SetFontSize(2, size)

Spec == Init /\ [][Next]_vars

\* The specification of the resize-and-retry loop: a world of labels whose
\* texts, visibility and font size change between cycles.  The resolve loop is
\* straight-line code of one run of the system closure: when process_queued
\* reports TextureTooSmall, the arm that resizes is executed.
InitLive ==
    /\ SysInitial
    /\ ui_text \in [Entities -> {[text |-> t, password |-> FALSE, font |-> "loaded",
                                  font_size |-> DEFAULT_FONT_SIZE, cached_glyphs |-> <<>>] :
                                 t \in Texts}]
    /\ text_editing = [e \in Entities |-> NoEditing]
    /\ FnIdle

NextLive ==
    \/ QueuePhase
    \/ ResolveDraw
    \/ ResolveReDraw
    \/ ResolveTextureTooSmall
    \/ \E e \in Entities, t \in Texts : SetText(e, t)
    \/ \E e \in Entities : SetHidden(e)
    \/ \E size \in FontSizes : SetFontSize(2, size)

SpecLive == InitLive /\ [][NextLive]_vars /\ WF_vars(ResolveTextureTooSmall)

InitFn ==
    /\ SysInitial
    /\ ui_text = [e \in Entities |->
                    [text |-> <<>>, password |-> FALSE, font |-> "loaded",
                     font_size |-> DEFAULT_FONT_SIZE, cached_glyphs |-> <<>>]]
    /\ text_editing = [e \in Entities |-> NoEditing]
    /\ fn_in \in FnTextInputs \cup FnCountInputs \cup FnLayoutInputs \cup FnGlyphInputs
                  \cup FnDrawInputs
    /\ fn_call = "none"
    /\ fn_out = 0

NextFn ==
    \/ CallSelectedBytes
    \/ CallHighlightedGlyphsRange
    \/ CallPasswordSections
    \/ CallPasswordSelectionCounts
    \/ CallUpdateCursorPosition
    \/ CallSplitRuns
    \/ CallCacheLockstep
    \/ CallClampedVertex
    \/ CallDrawPartition
    \/ CallSelectionRanges

SpecFn == InitFn /\ [][NextFn]_vars

\* The selection resource under the mouse selection system and under other
\* systems that call its methods.
InitSel ==
    /\ SysInitial
    /\ ui_text = [e \in Entities |->
                    [text |-> <<>>, password |-> FALSE, font |-> "loaded",
                     font_size |-> DEFAULT_FONT_SIZE, cached_glyphs |-> <<>>]]
    /\ text_editing = [e \in Entities |-> NoEditing]
    /\ FnIdle

NextSel ==
    \/ MouseSelectionSystem
    \/ Clear
    \/ \E entity \in SelEntities : Insert(entity)
    \/ \E entity \in SelEntities : Remove(entity)

SpecSel == InitSel /\ [][NextSel]_vars

\* The selection resource written by the mouse selection system alone.
NextClick == MouseSelectionSystem

SpecClick == InitSel /\ [][NextClick]_vars

\* ============================================================ properties
\* The elements the last queue phase laid out.
LaidOut == {e \in Visible : FontLoaded(e)}

\* The vertices of last.vertices emitted for element e, in emission order.
EmittedFor(e) ==
    LET Own(v) == v.entity = e
        own == SelectSeq(last.vertices, Own)
    IN [k \in 1..Len(own) |-> own[k].args]

\* The vertices emitted for e lie next to each other in last.vertices.
Contiguous(e) ==
    \A i, j \in 1..Len(last.vertices) :
        (i < j /\ last.vertices[i].entity = e /\ last.vertices[j].entity = e)
            => \A k \in i..j : last.vertices[k].entity = e

\* The section the last Draw laid out for element e, as <<section>> or <<>>.
DrawnSection(e) ==
    LET Of(section) == section.entity = e
    IN SelectSeq(brush.last_draw.sections, Of)

\* C1: after a Draw whose draw phase visits the elements in queue order, the
\* vertex list of every laid-out element is exactly the contiguous run of
\* emitted vertices produced for its queued glyphs, in emission order, and the
\* running cursor ends at the length of the emitted list.
C1_DrawPartitionsVertices ==
    last.step = "Draw" =>
        /\ last.current_glyph = Len(last.vertices)
        /\ \A e \in LaidOut :
            /\ ui_glyphs[e].present
            /\ ui_glyphs[e].vertices = EmittedFor(e)
            /\ Contiguous(e)
            /\ Len(DrawnSection(e)) = 1
            /\ Len(ui_glyphs[e].vertices) = Len(glyphs_custom_layout(DrawnSection(e)[1]))

C1_Witness ==
    /\ last.step = "Draw"
    /\ last.queue_order = <<2, 1>>
    /\ LaidOut = Entities
    /\ \A e \in Entities : Len(ui_glyphs[e].vertices) = 2
    /\ Len(last.vertices) = 4

\* C2: a ReDraw modifies no element's vertex list: after the cycle every
\* element's vertex list is the one the preceding Draw wrote.
C2_ReDrawKeepsVertices ==
    last.step = "ReDraw" => \A e \in Entities : ui_glyphs[e].vertices = last.drawn[e]

C2_Witness ==
    /\ last.step = "ReDraw"
    /\ \A e \in Entities : ui_glyphs[e].vertices # <<>> /\ ui_glyphs[e].vertices = last.drawn[e]

\* C3 (as claimed): after a ReDraw, the cursor position of every element with
\* editing state matches the current cursor index, its selection quads match
\* the current highlighted range, and its vertex list is untouched.
C3_ReDrawRecomputesGeometry ==
    last.step = "ReDraw" =>
        \A e \in LaidOut :
            (text_editing[e].present /\ ui_glyphs[e].present) =>
                /\ ui_glyphs[e].cursor_position = CursorOf(e)
                /\ ui_glyphs[e].selection_vertices = SelectionQuads(e)
                /\ ui_glyphs[e].vertices = last.drawn[e]

\* C4 (as claimed): after a Draw, an element with editing state whose
\* highlighted range over its glyph cache is [a, b) holds b - a selection
\* quads, one per cached glyph a..b-1 in order, each as wide as that glyph's
\* advance; none when a = b.
C4_SelectionQuadPerGlyph ==
    last.step = "Draw" =>
        \A e \in LaidOut :
            text_editing[e].present =>
                LET range == highlighted_glyphs_range(text_editing[e], ui_text[e].cached_glyphs)
                    quads == ui_glyphs[e].selection_vertices
                IN /\ Len(quads) = range.end - range.start
                   /\ \A k \in 1..Len(quads) :
                        quads[k].dimensions[1] =
                            ui_text[e].cached_glyphs[range.start + k].advance_width

\* The range C5 describes: [min, max) of cursor and cursor + vector, both ends
\* clamped into [0, length].
ClampedRange(cursor_position, highlight_vector, length) ==
    LET anchor == cursor_position + highlight_vector
    IN [start |-> Max(0, Min(Min(cursor_position, anchor), length)),
        end |-> Max(0, Min(Max(cursor_position, anchor), length))]

\* C5 (as claimed): for every cursor position and signed highlight vector,
\* highlighted_glyphs_range returns [min(cursor, cursor + vector),
\* max(cursor, cursor + vector)) with both ends clamped into [0, length]; a
\* negative anchor selects the glyphs from 0 up to the cursor.
C5_HighlightedRangeClamped ==
    fn_call = "highlighted_glyphs_range" =>
        /\ fn_out.start <= fn_out.end
        /\ fn_out.end <= Len(FnCache)
        /\ fn_out = ClampedRange(fn_in.cursor_position, fn_in.highlight_vector, Len(FnCache))

\* C6 (as claimed): selected_bytes never faults: for every cursor position and
\* signed highlight vector it returns no range, or a non-empty byte range on
\* grapheme boundaries inside the content.
C6_SelectedBytesNeverFaults ==
    fn_call = "selected_bytes" =>
        /\ fn_out.kind # "Panic"
        /\ fn_out.kind = "Some" =>
            /\ fn_out.start < fn_out.end
            /\ fn_out.end <= StrLen(fn_in.text)
            /\ \A b \in {fn_out.start, fn_out.end} :
                b = StrLen(fn_in.text)
                    \/ \E i \in 1..Len(grapheme_indices(fn_in.text)) :
                        grapheme_indices(fn_in.text)[i] = b

\* C7 (as claimed): in password mode with a selection, the three grapheme
\* counts (before, inside, after the selection) each lie in [0, total], sum to
\* the total, and no subtraction underflows, for every cursor position and
\* signed highlight vector.
C7_PasswordCountsClamped ==
    fn_call = "password_selection_counts" =>
        /\ ~fn_out.panic
        /\ fn_out.start \in 0..fn_in.grapheme_count
        /\ fn_out.to_end \in 0..fn_in.grapheme_count
        /\ fn_out.rest \in 0..fn_in.grapheme_count
        /\ fn_out.start + fn_out.to_end + fn_out.rest = fn_in.grapheme_count

\* C8: for every grapheme count N, the slices of password_sections(N) hold N
\* mask graphemes in total and each ends on a grapheme boundary of the
\* 16-grapheme mask token; N = 0 gives empty text, N = 16 one full token,
\* N = 17 one full token and one grapheme.
C8_PasswordSectionsCount ==
    fn_call = "password_sections" =>
        LET n == fn_in.grapheme_count
            text == Flatten(fn_out.sections)
        IN /\ fn_out.ok
           /\ GraphemeCount(text) = n
           /\ \A i \in 1..Len(fn_out.ranges) :
                /\ fn_out.ranges[i].from = 0
                /\ fn_out.ranges[i].to = StrLen(PASSWORD_STR)
                    \/ \E k \in 1..Len(grapheme_indices(PASSWORD_STR)) :
                        grapheme_indices(PASSWORD_STR)[k] = fn_out.ranges[i].to
           /\ n = 0 => text = <<>>
           /\ n = PASSWORD_STR_GRAPHEME_COUNT => text = PASSWORD_STR
           /\ n = PASSWORD_STR_GRAPHEME_COUNT + 1 => fn_out.sections = <<PASSWORD_STR, <<Bullet>>>>

C8_Witness ==
    /\ fn_call = "password_sections"
    /\ fn_in.grapheme_count = PASSWORD_STR_GRAPHEME_COUNT + 1
    /\ fn_out.ok
    /\ fn_out.sections = <<PASSWORD_STR, <<Bullet>>>>

\* The text the system laid out for element e (the content, or its mask): the
\* runs of its section, concatenated.
RenderedText(e) ==
    LET runs == DrawnSection(e)[1].text
    IN Flatten([i \in 1..Len(runs) |-> runs[i].text])

\* C9 (as claimed): after every cycle, the glyph cache of every laid-out
\* element has one entry per grapheme of the rendered text, also for content
\* with graphemes made of several code points.
C9_CacheLengthIsGraphemeCount ==
    last.step \in {"Draw", "ReDraw"} =>
        \A e \in LaidOut : Len(ui_text[e].cached_glyphs) = GraphemeCount(RenderedText(e))

\* C10: for a non-empty glyph cache, update_cursor_position puts the cursor at
\* (x, y + offset) of the cached glyph at the cursor index when the index is
\* inside the cache, and at (last x + last advance, last y + offset) when the
\* index is at end-of-text.
C10_CursorOnGlyphOrBehindLast ==
    (fn_call = "update_cursor_position" /\ FnCache # <<>>) =>
        LET c == fn_in.cursor_position
            len == Len(FnCache)
        IN /\ c \in 0..(len - 1) =>
                fn_out = <<FnCache[c + 1].x, FnCache[c + 1].y + FnOffset>>
           /\ c = len =>
                fn_out = <<FnCache[len].x + FnCache[len].advance_width,
                           FnCache[len].y + FnOffset>>

C10_Witness ==
    /\ fn_call = "update_cursor_position"
    /\ fn_in.text = <<"A", "B">>
    /\ fn_in.cursor_position = 2
    /\ fn_out = <<FnCache[2].x + FnCache[2].advance_width, FnCache[2].y + FnOffset>>
    /\ fn_out # <<FnCache[2].x, FnCache[2].y + FnOffset>>

\* C3: an element that got its UiGlyphs from the first Draw it took part in and
\* whose highlighted range is not empty, after the ReDraw of the next cycle.
C3_Witness ==
    /\ last.step = "ReDraw"
    /\ edits = 0
    /\ ui_text[1].text = <<"A", "B">>
    /\ text_editing[1] = [present |-> TRUE, cursor_position |-> 0, highlight_vector |-> 1]
    /\ ui_glyphs[1].present
    /\ ui_glyphs[1].cursor_position = CursorOf(1)
    /\ SelectionQuads(1) # <<>>
    /\ ui_glyphs[1].selection_vertices = <<>>

\* C4: the first Draw of an element with a one-glyph selection: it holds the
\* glyph vertices and no selection quad.
C4_Witness ==
    /\ last.step = "Draw"
    /\ edits = 0
    /\ ui_text[1].text = <<"A", "B">>
    /\ text_editing[1] = [present |-> TRUE, cursor_position |-> 0, highlight_vector |-> 1]
    /\ highlighted_glyphs_range(text_editing[1], ui_text[1].cached_glyphs) = [start |-> 0, end |-> 1]
    /\ Len(ui_glyphs[1].vertices) = 2
    /\ ui_glyphs[1].selection_vertices = <<>>

\* C5: cursor 1, anchor -1 over two glyphs: the range returned is [1, 2).
C5_Witness ==
    /\ fn_call = "highlighted_glyphs_range"
    /\ fn_in.text = <<"A", "B">>
    /\ fn_in.cursor_position = 1
    /\ fn_in.highlight_vector = -2
    /\ fn_out = [start |-> 1, end |-> 2]
    /\ ClampedRange(1, -2, 2) = [start |-> 0, end |-> 1]

\* C6: cursor 0, anchor -1, a build with overflow checks: the call panics.
C6_Witness ==
    /\ fn_call = "selected_bytes"
    /\ fn_in.text = <<"A", "B">>
    /\ fn_in.cursor_position = 0
    /\ fn_in.highlight_vector = -1
    /\ fn_in.overflow_checks
    /\ fn_out.kind = "Panic"

\* C7: two graphemes, cursor 1, anchor 5: the count after the selection
\* underflows (a panic with overflow checks, a wrapped count without).
C7_Witness ==
    /\ fn_call = "password_selection_counts"
    /\ fn_in.grapheme_count = 2
    /\ fn_in.cursor_position = 1
    /\ fn_in.highlight_vector = 4
    /\ fn_out.to_end = 4
    /\ fn_out.panic \/ fn_out.rest > fn_in.grapheme_count

\* C9: content "A" + U+0301, one grapheme, cached as two entries.
C9_Witness ==
    /\ last.step = "Draw"
    /\ 2 \in LaidOut
    /\ ui_text[2].text = <<"A", "m">>
    /\ ~ui_text[2].password
    /\ GraphemeCount(RenderedText(2)) = 1
    /\ Len(ui_text[2].cached_glyphs) = 2

\* C11: for an element whose glyph cache is empty, update_cursor_position
\* writes the aligned origin (bounds origin plus bounds size times the
\* normalized alignment offset) for every cursor index, and that is the point
\* the element's section is laid out from (screen y is the negated UI y).
C11_EmptyCacheCursorAtOrigin ==
    (fn_call = "update_cursor_position" /\ FnCache = <<>>) =>
        /\ fn_out = <<Transform(1).pixel_x + (Transform(1).pixel_width * Align2(1)[1]) \div 2,
                      Transform(1).pixel_y + (Transform(1).pixel_height * Align2(1)[2]) \div 2>>
        /\ fn_out = <<FnSection.screen_position[1], -(FnSection.screen_position[2])>>

C11_Witness ==
    /\ fn_call = "update_cursor_position"
    /\ fn_in.text = <<>>
    /\ FnCache = <<>>
    /\ fn_in.cursor_position = 2
    /\ fn_out = <<68, 56>>

\* The elements text_query visits whose font handle names no loaded asset.
Unloaded == {e \in Visible : ~FontLoaded(e)}

\* C12 (as claimed): an element whose font is not loaded is skipped without
\* faulting the cycle: nothing is queued for it, its glyph cache is empty, and
\* the cycle still ends with Draw or ReDraw, also when the element carries
\* editing state or already has render geometry.
C12_UnloadedFontSkipped ==
    /\ pc = "resolve" =>
        \A e \in Unloaded :
            /\ ui_text[e].cached_glyphs = <<>>
            /\ \A i \in 1..Len(brush.section_buffer) : brush.section_buffer[i].entity # e
    /\ last.step \in {"Draw", "ReDraw"} =>
        \A e \in Unloaded : ui_text[e].cached_glyphs = <<>>
    /\ last.step # "font_expect"

\* C12: the cycle has panicked in the resolve phase on an element with editing
\* state whose font is not loaded, the queue phase having skipped it.
C12_Witness ==
    /\ pc = "panicked"
    /\ last.step = "font_expect"
    /\ 1 \in Unloaded
    /\ text_editing[1].present
    /\ ui_text[1].cached_glyphs = <<>>
    /\ \A i \in 1..Len(brush.section_buffer) : brush.section_buffer[i].entity # 1

\* The queued glyphs do not fit the atlas: process_queued reports TextureTooSmall.
AtlasOverflow == pc = "resolve" /\ ~WouldRedraw /\ ~AtlasFits

\* C13: an atlas overflow is recovered inside the cycle: the step taken on
\* TextureTooSmall rebuilds the texture and the atlas cache at the suggested
\* size, keeps the queued sections and their order, stays in the resolve loop
\* and touches no element; and a cycle leaves the resolve loop for the idle
\* state only with a Draw or a ReDraw.
C13_OverflowRecoveredInCycle ==
    [][/\ AtlasOverflow =>
            /\ pc' = "resolve"
            /\ last'.step = "TextureTooSmall"
            /\ glyph_texture'.present
            /\ glyph_texture'.width = 2 * brush.width
            /\ glyph_texture'.height = 2 * brush.height
            /\ brush'.width = glyph_texture'.width
            /\ brush'.height = glyph_texture'.height
            /\ brush'.section_buffer = brush.section_buffer
            /\ last'.queue_order = last.queue_order
            /\ UNCHANGED <<hidden, ui_text, text_editing, ui_glyphs>>
       /\ (pc = "resolve" /\ pc' = "idle") => last'.step \in {"Draw", "ReDraw"}
       /\ (pc = "resolve" /\ pc' = "panicked") => ~AtlasOverflow]_vars

\* C13: a cycle that overflowed the initial atlas has ended with a Draw on the
\* enlarged atlas.
C13_Witness ==
    /\ last.step = "Draw"
    /\ pc = "idle"
    /\ brush.width > INITIAL_CACHE_SIZE
    /\ glyph_texture.width = brush.width
    /\ glyph_texture.height = brush.height
    /\ ui_text[2].font_size = LargeFontSize
    /\ Len(ui_glyphs[2].vertices) = 2

\* process_queued is about to report Draw or ReDraw.
DrawOrReDrawReported == pc = "resolve" /\ (WouldRedraw \/ AtlasFits)

\* C14: the resize-and-retry loop terminates: a cycle that has entered the
\* resolve loop eventually gets Draw or ReDraw from process_queued, however
\* many resizes it takes, each resize suggesting a larger atlas.
C14_ResolveLoopTerminates ==
    (pc = "resolve") ~>
        (DrawOrReDrawReported \/ last.step \in {"Draw", "ReDraw", "font_expect"})

\* C14: a cycle that needed two resizes has ended with a Draw.
C14_Witness ==
    /\ last.step = "Draw"
    /\ pc = "idle"
    /\ brush.width = 4 * INITIAL_CACHE_SIZE
    /\ glyph_texture.width = 4 * INITIAL_CACHE_SIZE
    /\ Len(ui_glyphs[2].vertices) = 2

\* C15: the glyph atlas owns exactly one texture: once the first cycle has
\* created it, the handle keeps its identity, the system holds one texture in
\* storage, and the texture's width and height never decrease; before the
\* first cycle there is none.
C15_OneTextureGrowsOnly ==
    [][/\ glyph_texture.present =>
            /\ glyph_texture'.present
            /\ glyph_texture'.handle = glyph_texture.handle
            /\ glyph_texture'.textures = 1
            /\ glyph_texture'.width >= glyph_texture.width
            /\ glyph_texture'.height >= glyph_texture.height
       /\ ~glyph_texture.present =>
            /\ glyph_texture.textures = 0
            /\ last.step \in {"init", "edit"}
            /\ (pc' # pc) => (glyph_texture'.present /\ glyph_texture'.textures = 1)]_vars

\* C15: the texture has been resized twice and still is the texture behind
\* the first handle.
C15_Witness ==
    /\ glyph_texture.present
    /\ glyph_texture.handle = 1
    /\ glyph_texture.textures = 1
    /\ glyph_texture.width = 4 * INITIAL_CACHE_SIZE
    /\ glyph_texture.height = 4 * INITIAL_CACHE_SIZE
    /\ last.step = "ReDraw"

\* Byte index at which grapheme k of text starts (the length for k past the end).
GraphemeByte(text, k) ==
    IF k < Len(grapheme_indices(text)) THEN grapheme_indices(text)[k + 1] ELSE StrLen(text)

\* The graphemes [a, b) of text.
GraphemeRange(text, a, b) == StrSlice(text, GraphemeByte(text, a), GraphemeByte(text, b))

\* C16 (as claimed): non-password content with editing state is laid out as
\* three runs base, selected, base whose middle run is the graphemes
\* [min(cursor, anchor), max(cursor, anchor)) of the content when that range,
\* normalized to the content, is not empty, and as one base run equal to the
\* content otherwise.
C16_RunsFollowSelection ==
    fn_call = "split_runs" =>
        LET n == GraphemeCount(fn_in.text)
            range == ClampedRange(fn_in.cursor_position, fn_in.highlight_vector, n)
            Run(text, color) == [text |-> text, extra |-> [entity |-> 1, color |-> color]]
        IN /\ ~fn_out.fault
           /\ fn_out.runs =
                IF range.start < range.end
                THEN <<Run(GraphemeRange(fn_in.text, 0, range.start), "base"),
                       Run(GraphemeRange(fn_in.text, range.start, range.end), "selected"),
                       Run(GraphemeRange(fn_in.text, range.end, n), "base")>>
                ELSE <<Run(fn_in.text, "base")>>

\* C16: content "AB", cursor 1, anchor -1, no overflow checks: one base run,
\* although the graphemes [0, 1) lie between anchor and cursor.
C16_Witness ==
    /\ fn_call = "split_runs"
    /\ fn_in.text = <<"A", "B">>
    /\ fn_in.cursor_position = 1
    /\ fn_in.highlight_vector = -2
    /\ ~fn_in.overflow_checks
    /\ ~fn_out.fault
    /\ fn_out.runs = <<[text |-> <<"A", "B">>, extra |-> [entity |-> 1, color |-> "base"]]>>

\* How many laid-out glyphs the walk has consumed before character i.
RECURSIVE LayoutCursor(_, _, _)
LayoutCursor(text, laid, i) ==
    IF i = 1 THEN 0
    ELSE LET j == LayoutCursor(text, laid, i - 1)
         IN IF j < Len(laid) /\ glyph_id(text[i - 1]) = laid[j + 1].id THEN j + 1 ELSE j

\* C17: the cache of non-password text has one entry per content character;
\* the entry of a character whose glyph id equals that of the next unconsumed
\* laid-out glyph is that glyph's (x, negated y, advance), and the layout
\* cursor advances; on divergence, or with the layout exhausted, the entry is
\* (previous x + previous advance, previous y) with the character's own
\* advance, and the layout cursor stays; the walk never fails.
C17_LockstepReconciliation ==
    fn_call = "cache_lockstep" =>
        /\ Len(fn_out) = Len(fn_in.text)
        /\ \A i \in 1..Len(fn_in.text) :
            LET j == LayoutCursor(fn_in.text, FnLaid, i)
                matches == j < Len(FnLaid) /\ glyph_id(fn_in.text[i]) = FnLaid[j + 1].id
            IN IF matches
               THEN /\ fn_out[i] = [x |-> FnLaid[j + 1].x, y |-> -(FnLaid[j + 1].y),
                                    advance_width |-> h_advance(FnLaid[j + 1].id, FnFontSize)]
                    /\ LayoutCursor(fn_in.text, FnLaid, i + 1) = j + 1
               ELSE /\ fn_out[i].advance_width = h_advance(glyph_id(fn_in.text[i]), FnFontSize)
                    /\ i > 1 => /\ fn_out[i].x = fn_out[i - 1].x + fn_out[i - 1].advance_width
                                /\ fn_out[i].y = fn_out[i - 1].y
                    /\ LayoutCursor(fn_in.text, FnLaid, i + 1) = j

\* C17: content "ABA" whose layout returned no glyph for "B": the second
\* entry is extrapolated from the first, the third is the second glyph.
C17_Witness ==
    /\ fn_call = "cache_lockstep"
    /\ fn_in.text = <<"A", "B", "A">>
    /\ fn_in.skipped = {2}
    /\ Len(FnLaid) = 2
    /\ fn_out[2] = [x |-> fn_out[1].x + fn_out[1].advance_width, y |-> fn_out[1].y,
                    advance_width |-> h_advance(glyph_id("B"), FnFontSize)]
    /\ fn_out[3] = [x |-> FnLaid[2].x, y |-> -(FnLaid[2].y),
                    advance_width |-> h_advance(FnLaid[2].id, FnFontSize)]

\* C18: a Draw regenerates the render geometry as a whole: after it, an
\* element that was not laid out this cycle (hidden, or without a loaded font)
\* holds no glyph vertices and no selection quads and owns no emitted vertex;
\* and no section is ever queued for a hidden element.
C18_DrawRegeneratesAll ==
    /\ last.step = "Draw" =>
        \A e \in Entities \ LaidOut :
            /\ ui_glyphs[e].vertices = <<>>
            /\ ui_glyphs[e].selection_vertices = <<>>
            /\ \A k \in 1..Len(last.vertices) : last.vertices[k].entity # e
    /\ \A i \in 1..Len(brush.section_buffer) : ~hidden[brush.section_buffer[i].entity]

\* C18: element 2 was laid out and drawn, then hidden; the next Draw has left
\* it without vertices while element 1 got its own.
C18_Witness ==
    /\ last.step = "Draw"
    /\ hidden[2]
    /\ ui_text[2].cached_glyphs # <<>>
    /\ ui_glyphs[2].present
    /\ ui_glyphs[2].vertices = <<>>
    /\ ui_glyphs[1].vertices # <<>>

\* The editing geometry of element e is the one its current state calls for.
EditingGeometryWritten(e) ==
    /\ ui_glyphs[e].present
    /\ ui_glyphs[e].selection_vertices = SelectionQuads(e)
    /\ ui_glyphs[e].cursor_position = CursorOf(e)
    /\ ui_glyphs[e].height = FontHeight(e)
    /\ ui_glyphs[e].space_width = SpaceWidth(e)

\* C19 (as claimed): after a cycle that resolves to Draw, every laid-out
\* element with editing state holds its selection quads, cursor position, line
\* height and space width next to its glyph vertices, an element that had no
\* UiGlyphs before the cycle included, and they stay correct across the ReDraw
\* cycles that follow.
C19_EditingGeometryFromFirstDraw ==
    last.step \in {"Draw", "ReDraw"} =>
        \A e \in LaidOut :
            text_editing[e].present =>
                /\ EditingGeometryWritten(e)
                /\ ui_glyphs[e].vertices = last.drawn[e]

\* C19: the first Draw of element 1 (content "AB", cursor 1, nothing
\* selected): it got its two glyph vertices and the default geometry.
C19_Witness ==
    /\ last.step = "Draw"
    /\ edits = 0
    /\ ui_text[1].text = <<"A", "B">>
    /\ text_editing[1] = [present |-> TRUE, cursor_position |-> 1, highlight_vector |-> 0]
    /\ Len(ui_glyphs[1].vertices) = 2
    /\ ui_glyphs[1].cursor_position = <<0, 0>>
    /\ CursorOf(1) # <<0, 0>>
    /\ ui_glyphs[1].height = 0
    /\ FontHeight(1) > 0
    /\ ui_glyphs[1].space_width = 0

\* What C20 asks of one axis a of a glyph whose emitted quad spans
\* [lo, hi] in pixels and [uv_lo, uv_hi] in texture coordinates.
AxisClamped(a, lo, hi, uv_lo, uv_hi) ==
    LET width == a.coords_max - a.coords_min
        span == a.uv_max - a.uv_min
    IN /\ hi = (IF a.coords_max > a.bounds_max THEN a.bounds_max ELSE a.coords_max)
       /\ lo = (IF a.coords_min < a.bounds_min THEN a.bounds_min ELSE a.coords_min)
       /\ (a.uv_max - uv_hi) * width = span * (a.coords_max - hi)
       /\ (uv_lo - a.uv_min) * width = span * (lo - a.coords_min)
       /\ a.coords_max > a.bounds_max => uv_hi < a.uv_max
       /\ a.coords_min < a.bounds_min => uv_lo > a.uv_min
       /\ a.coords_max <= a.bounds_max => uv_hi = a.uv_max
       /\ a.coords_min >= a.bounds_min => uv_lo = a.uv_min

\* C20: for every glyph, an edge of the pixel box that exceeds the bounds is
\* clamped to the bound and its texture coordinate is moved by the same
\* fraction of the span (the clamped max edge gets a strictly smaller UV), an
\* edge that is not clamped keeps its UV, also when both edges of an axis are
\* clamped.
C20_UvClampedInProportion ==
    fn_call = "to_vertex" =>
        LET g == fn_in.glyph
            uv == fn_out.tex_coords_bounds
            x_hi == IF g.x.coords_max > g.x.bounds_max THEN g.x.bounds_max ELSE g.x.coords_max
            x_lo == IF g.x.coords_min < g.x.bounds_min THEN g.x.bounds_min ELSE g.x.coords_min
            y_hi == IF g.y.coords_max > g.y.bounds_max THEN g.y.bounds_max ELSE g.y.coords_max
            y_lo == IF g.y.coords_min < g.y.bounds_min THEN g.y.bounds_min ELSE g.y.coords_min
        IN /\ fn_out.dimensions = <<x_hi - x_lo, y_hi - y_lo>>
           /\ AxisClamped(g.x, x_lo, x_hi, uv[1], uv[3])
           /\ AxisClamped(g.y, y_lo, y_hi, uv[2], uv[4])

\* C20: a glyph cut on both edges of the x axis (pixels [2, 6] in bounds
\* [3, 5], UV [8, 16]) and on neither edge of the y axis.
C20_Witness ==
    /\ fn_call = "to_vertex"
    /\ fn_in.glyph.x = Axis(2, 6, 3, 5, 8, 16)
    /\ fn_in.glyph.y = Axis(2, 6, 2, 6, 8, 12)
    /\ fn_out.dimensions = <<2, 4>>
    /\ fn_out.tex_coords_bounds = <<10, 8, 14, 12>>

\* C21: last() is Some(e) only if e is currently selected, and it is None
\* whenever no entity is selected, in every state reached through clear,
\* insert, remove and the mouse selection system.
C21_LastIsSelected ==
    /\ SelectedEntities_last(selected) # NoEntity
           => SelectedEntities_contains(selected, SelectedEntities_last(selected))
    /\ selected.entities = {} => SelectedEntities_last(selected) = NoEntity

\* C21: a ClickStart on an entity without Selectable has been handled while
\* an entity was selected.
C21_Witness ==
    /\ click.handled
    /\ ~HasSelectable(click.target)
    /\ click.before.entities = {1}
    /\ selected.entities = {}
    /\ SelectedEntities_last(selected) = 1

\* C22: after any sequence of ClickStart events handled by the mouse
\* selection system, all selected entities have equal multi_select_group.
C22_SelectedShareGroup ==
    \A a, b \in selected.entities :
        /\ HasSelectable(a)
        /\ HasSelectable(b)
        /\ Selectable(a).multi_select_group = Selectable(b).multi_select_group

\* C22: two entities of one group are selected together by a click on an
\* entity of the group of the last selected one.
C22_Witness ==
    /\ click.handled
    /\ selected.entities = {1, 2}
    /\ click.before.entities # {1, 2}

\* The selection the claim C23 gives after a ClickStart on a selectable
\* entity.
ClaimedSelection(before, entity, ctrl, shift) ==
    IF same_select_group(before, entity)
       /\ (shift \/ ctrl \/ Selectable(entity).auto_multi_select)
    THEN before.entities \cup {entity}
    ELSE {entity}

\* C23: a ClickStart on a selectable entity of the group of the last selected
\* entity adds it to the selection when shift or control is held or the entity
\* has auto_multi_select; every other ClickStart on a selectable entity
\* replaces the selection by that entity.
C23_MultiSelectDecision ==
    (click.handled /\ HasSelectable(click.target)) =>
        selected.entities
            = ClaimedSelection(click.before, click.target, click.ctrl, click.shift)

\* C23: entity 2 is selected and entity 1, of the same group and without
\* auto_multi_select, is clicked with the shift key held.
C23_Witness ==
    /\ click.handled
    /\ click.target = 1
    /\ click.shift
    /\ ~click.ctrl
    /\ click.before = [entities |-> {2}, last |-> 2]
    /\ selected.entities = {1}

\* The targets of the batches of events of one type.
RECURSIVE Targets(_, _)
Targets(events, event_type) ==
    IF events = <<>> THEN {}
    ELSE (IF Head(events).event_type = event_type THEN Head(events).targets ELSE {})
             \cup Targets(Tail(events), event_type)

\* C28: after the mouse selection system has handled any sequence of
\* ClickStart events, the selected set is the set of entities whose most
\* recent focus-change event is Focus; in the last click handled every entity
\* that left the selection got a Blur, every entity that entered it got a
\* Focus, and all Blur events were emitted before the Focus.
C28_SelectionMatchesFocusEvents ==
    /\ selected.entities = {e \in SelEntities : focus[e] = "Focus"}
    /\ click.handled =>
          /\ click.before.entities \ selected.entities \subseteq Targets(click.emitted, "Blur")
          /\ selected.entities \ click.before.entities \subseteq Targets(click.emitted, "Focus")
          /\ \A i, j \in 1..Len(click.emitted) :
                (click.emitted[i].event_type = "Blur" /\ click.emitted[j].event_type = "Focus")
                    => i < j

\* C28: a click replaced a selection of two entities by one of them: both
\* were blurred, then the clicked one was focused.
C28_Witness ==
    /\ click.handled
    /\ click.before.entities = {1, 2}
    /\ click.target = 1
    /\ click.emitted = <<Batch("Blur", {1, 2}), Batch("Focus", {1})>>
    /\ selected.entities = {1}
    /\ focus[1] = "Focus"
    /\ focus[2] = "Blur"

\* The cache the queue phase builds for element e from its content, password
\* flag, font, size, bounds and editing state alone.
FreshCache(e) ==
    IF ~FontLoaded(e) THEN {<<>>}
    ELSE {CachedGlyphsOf(e, glyphs_custom_layout(Section(e, TextRuns(e, oc).runs))) :
            oc \in {b \in BOOLEAN : ~TextRuns(e, b).fault}}

\* C24: the cache a laid-out element holds after the queue phase of a cycle
\* is the one built from that cycle's content, font, size, bounds and layout,
\* whatever the cache held before the cycle.
C24_CacheRebuiltEachCycle ==
    [][(pc = "idle" /\ pc' = "resolve") =>
          \A e \in Visible : ui_text'[e].cached_glyphs \in FreshCache(e)]_vars

\* C24: element 2 was drawn with a text of two characters, its text was then
\* emptied, and the next queue phase left it an empty cache.
C24_Witness ==
    /\ pc = "resolve"
    /\ last.step = "queue"
    /\ edits = 1
    /\ 2 \in Visible
    /\ Len(last.drawn[2]) = 2
    /\ ui_text[2].text = <<>>
    /\ ui_text[2].cached_glyphs = <<>>

\* current_glyph after the first i entities of the draw order were visited.
CursorAfter(i) ==
    DrawPartition(fn_in.vertices, SubSeq(fn_in.order, 1, i), 0,
                  [e \in Entities |-> <<>>]).current_glyph

\* C25: whatever order the draw loop visits the entities in, an entity only
\* gets vertices emitted for it, in the order of the list, and the running
\* cursor moves forward only and never passes the end of the list.
C25_DrawOrderNeverMisassigns ==
    fn_call = "draw_partition" =>
        /\ \A e \in Entities :
              \A k \in 1..Len(fn_out.taken[e]) :
                 LET j == fn_out.taken[e][k]
                 IN /\ j \in 1..Len(fn_in.vertices)
                    /\ fn_in.vertices[j].entity = e
                    /\ k > 1 => fn_out.taken[e][k - 1] = j - 1
        /\ \A i \in 1..Len(fn_in.order) :
              /\ CursorAfter(i - 1) <= CursorAfter(i)
              /\ CursorAfter(i) <= Len(fn_in.vertices)
        /\ fn_out.current_glyph = CursorAfter(Len(fn_in.order))

\* C25: entities queued in the order 1, 2 with two vertices each and drawn in
\* the order 2, 1: entity 2 gets nothing, entity 1 its own two vertices, and
\* the cursor stops before the vertices of entity 2.
C25_Witness ==
    /\ fn_call = "draw_partition"
    /\ fn_in.order = <<2, 1>>
    /\ Len(fn_in.vertices) = 4
    /\ fn_in.vertices[1].entity = 1
    /\ fn_in.vertices[3].entity = 2
    /\ fn_out.taken[2] = <<>>
    /\ fn_out.taken[1] = <<1, 2>>
    /\ fn_out.current_glyph = 2

\* The index of the grapheme of text that starts at a byte offset (the
\* grapheme count for the length of the text).
GraphemeAt(text, byte) ==
    Cardinality({k \in 1..Len(grapheme_indices(text)) : grapheme_indices(text)[k] < byte})

\* C26 (as claimed): for non-password content with editing state, the
\* graphemes of the selected-colour run given by selected_bytes are the index
\* range highlighted_glyphs_range gives the selection quads, for every cursor
\* position and signed highlight vector; when there is no selected run the
\* highlighted range is empty.
C26_SelectedRunIsHighlightedRange ==
    fn_call = "selection_ranges" =>
        /\ fn_out.bytes.kind # "Panic"
        /\ fn_out.bytes.kind = "Some" =>
              /\ fn_out.glyphs.start = GraphemeAt(fn_in.text, fn_out.bytes.start)
              /\ fn_out.glyphs.end = GraphemeAt(fn_in.text, fn_out.bytes.end)
        /\ fn_out.bytes.kind = "None" => fn_out.glyphs.start = fn_out.glyphs.end

\* C26: content "AB", cursor 1, anchor -1, no overflow checks: no run in the
\* selected colour, and a selection quad on glyph 1.
C26_Witness ==
    /\ fn_call = "selection_ranges"
    /\ fn_in.text = <<"A", "B">>
    /\ fn_in.cursor_position = 1
    /\ fn_in.highlight_vector = -2
    /\ ~fn_in.overflow_checks
    /\ fn_out.bytes.kind = "None"
    /\ fn_out.glyphs = [start |-> 1, end |-> 2]

\* The cache entry copied from a laid-out glyph.
CopyOf(glyph) ==
    [x |-> glyph.x, y |-> -(glyph.y), advance_width |-> h_advance(glyph.id, FnFontSize)]

\* C27: when the layout only skipped characters, every laid-out glyph is
\* consumed, in order and once: there is a strictly increasing assignment of
\* the laid-out glyphs to content characters of the same glyph id whose cache
\* entries are the copies of the glyphs, and every other entry is
\* extrapolated, so as many entries are copied as glyphs were laid out.
C27_AllLaidGlyphsConsumedInOrder ==
    fn_call = "cache_lockstep" =>
        \E f \in [1..Len(FnLaid) -> 1..Len(fn_in.text)] :
            /\ \A j, k \in 1..Len(FnLaid) : j < k => f[j] < f[k]
            /\ \A j \in 1..Len(FnLaid) :
                  /\ glyph_id(fn_in.text[f[j]]) = FnLaid[j].id
                  /\ fn_out[f[j]] = CopyOf(FnLaid[j])
            /\ \A i \in 1..Len(fn_in.text) :
                  (\A j \in 1..Len(FnLaid) : f[j] # i) =>
                      /\ fn_out[i].advance_width
                             = h_advance(glyph_id(fn_in.text[i]), FnFontSize)
                      /\ fn_out[i].x = (IF i = 1 THEN 0
                                        ELSE fn_out[i - 1].x + fn_out[i - 1].advance_width)
                      /\ fn_out[i].y = (IF i = 1 THEN 0 ELSE fn_out[i - 1].y)

\* C27: content "AAB" whose layout skipped the first "A": the glyph laid out
\* for the second "A" is consumed by the first, the second is extrapolated and
\* the glyph of "B" is consumed by "B".
C27_Witness ==
    /\ fn_call = "cache_lockstep"
    /\ fn_in.text = <<"A", "A", "B">>
    /\ fn_in.skipped = {1}
    /\ Len(FnLaid) = 2
    /\ fn_out[1] = CopyOf(FnLaid[1])
    /\ fn_out[2].x = fn_out[1].x + fn_out[1].advance_width
    /\ fn_out[3] = CopyOf(FnLaid[2])
    /\ fn_out[2] # CopyOf(FnLaid[1])

\* C29: the glyph texture in texture storage has the dimensions of the atlas
\* cache, between cycles and while a cycle resolves: it is created with the
\* cache's dimensions, and an overflow replaces the texture and resizes the
\* cache to the same width and height; before the first cycle there is no
\* texture and the cache has its initial size.
C29_TextureMatchesAtlas ==
    /\ glyph_texture.present =>
          /\ glyph_texture.width = brush.width
          /\ glyph_texture.height = brush.height
    /\ ~glyph_texture.present =>
          /\ brush.width = INITIAL_CACHE_SIZE
          /\ brush.height = INITIAL_CACHE_SIZE

\* C29: a cycle that overflowed the atlas has ended, and texture and cache
\* both have grown from the initial size to the same size.
C29_Witness ==
    /\ pc = "idle"
    /\ last.step \in {"Draw", "ReDraw"}
    /\ glyph_texture.present
    /\ glyph_texture.width >= 2 * INITIAL_CACHE_SIZE
    /\ glyph_texture.height >= 2 * INITIAL_CACHE_SIZE
    /\ brush.width = glyph_texture.width
    /\ brush.height = glyph_texture.height

====
